---- MODULE Spec2Model ----
(***************************************************************************)
(* Verification model of the Mint authenticator popup: the Base32 decoder, *)
(* the TOTP generator (generateTOTP) and the popup's view/list pages with  *)
(* their refresh timers.                                                   *)
(*                                                                         *)
(* Strings are sequences of one-character strings.  JavaScript Numbers     *)
(* that may exceed 2^31 (Date.now() and what is derived from it) are       *)
(* sequences of four base-65536 limbs, most significant first.             *)
(***************************************************************************)
EXTENDS Integers, Sequences, FiniteSets, TLC

VARIABLES
  decIn,      \* decoder harness: the string handed to the decoder
  decOut,     \* decoder harness: <<"none">> or <<"bytes", byte sequence>>
  decPc,      \* decoder harness: "ready" | "done" | "both"
  decAlt,     \* decoder harness: a second spelling of decIn
  decAltOut,  \* decoder harness: <<"none">> or <<"bytes", bytes of decAlt>>
  variant,    \* which generateTOTP the page loaded: "chain" (spa.js) | "async" (genTotp.js)
  hmacSeed,   \* selects which function of (key, message) HMAC-SHA1 is
  calls,      \* the generateTOTP calls made so far, one record each
  loaded,     \* popup: the window's load event has been handled
  hash,       \* popup: location.hash
  display,    \* popup: the page containers whose style.display is "block"
  store,      \* chrome.storage.sync: the keys object, its (name, secret) properties
  form,       \* popup: the add page's fields key-name, key-secret and qr-status
  linuxPopup, \* isLinux() && isPopup()
  confirmResult, \* popup: what confirm() returned in the last deleteKey call
  storageQ,   \* chrome.storage.sync requests issued and not yet completed, in order
  timers,     \* popup: the active setInterval timers
  inflight,   \* popup: generateTOTP promises not yet settled
  viewName,   \* popup: the account page-view was last rendered for
  viewCode,   \* popup: the view page's #code element
  rows,       \* popup: the account rows attached to page-list, name -> code element
  listReady,  \* popup: the list's storage callback has rendered rows and Add New
  window,     \* the current 30-second window, floor(Date.now() / 30000)
  popupScript, \* which file the popup page loaded as its script
  autofill,   \* Fill: the clipboard, the fill_otp messages under way, the page's input
  tabHash     \* the add.html tab: its location.hash

decVars == <<decIn, decOut, decPc, decAlt, decAltOut>>
totpVars == <<variant, hmacSeed, calls>>
pageVars == <<loaded, display, timers, inflight, viewName, viewCode, rows, listReady>>
extVars == <<popupScript, autofill, tabHash>>
uiVars == <<hash, pageVars, store, storageQ, window, form, linuxPopup, confirmResult, extVars>>
vars == <<decVars, totpVars, uiVars>>

-----------------------------------------------------------------------------
(* Bounds of the model.                                                    *)

MaxLen == 4

\* characters of an input string that is decoded in two spellings
MaxRespelt == 3

\* generateTOTP calls that may be in flight or settled at once
MaxCalls == 2

\* 30-second windows the popup's clock passes through
MaxWindow == 1

\* saves the popup may have under way at once
MaxSaving == 1

\* generateTOTP promises the popup may have unsettled at once
MaxInflight == 1

\* storage requests pending when a hash is entered by hand
MaxPending == 1
MaxFills == 1
MaxPeriods == 2

-----------------------------------------------------------------------------
(* Characters and strings.                                                 *)

LowerLetters == <<"a","b","c","d","e","f","g","h","i","j","k","l","m",
                  "n","o","p","q","r","s","t","u","v","w","x","y","z">>

UpperLetters == <<"A","B","C","D","E","F","G","H","I","J","K","L","M",
                  "N","O","P","Q","R","S","T","U","V","W","X","Y","Z">>

\* const alphabet = "ABCDEFGHIJKLMNOPQRSTUVWXYZ234567"
alphabet == UpperLetters \o <<"2","3","4","5","6","7">>

\* The characters input strings are drawn from: an alphabet letter in each
\* case, an alphabet digit, a letter outside the alphabet whose upper-case
\* form is two alphabet letters, a digit outside the alphabet, padding,
\* whitespace.
InputChars == {"A", "h", "7", "ß", "1", "=", " "}

Range(s) == {s[i] : i \in 1..Len(s)}

\* String.prototype.indexOf for a one-character needle, 0-based, -1 if absent.
IndexOf(s, c) ==
  IF c \in Range(s)
    THEN (CHOOSE i \in 1..Len(s) : s[i] = c /\ \A j \in 1..(i-1) : s[j] # c) - 1
    ELSE -1

UpperCharAsIs(c) == <<c>>

\* String.prototype.toUpperCase of one character: the upper-case mapping
\* of the Unicode character database, which maps "ß" to "SS".
UpperChar(c) ==
  IF IndexOf(LowerLetters, c) >= 0
    THEN <<UpperLetters[IndexOf(LowerLetters, c) + 1]>>
    ELSE IF c = "ß" THEN <<"S", "S">> ELSE <<c>>

\* String.prototype.toUpperCase
RECURSIVE toUpperCase(_)
toUpperCase(s) ==
  IF Len(s) = 0 THEN <<>> ELSE UpperChar(Head(s)) \o toUpperCase(Tail(s))

\* s.replace(/=+$/, "")
RECURSIVE StripTrailingPad(_)
StripTrailingPad(s) ==
  IF Len(s) > 0 /\ s[Len(s)] = "="
    THEN StripTrailingPad(SubSeq(s, 1, Len(s) - 1))
    ELSE s

\* the character class [A-Z2-7]
InClassAZ27(c) == c \in Range(UpperLetters) \cup {"2","3","4","5","6","7"}

RemoveNothing(s) == s

\* s.replace(/[^A-Z2-7]/g, '')
RemoveOutsideClass(s) == SelectSeq(s, InClassAZ27)

\* Number.prototype.toString(2) of a non-negative integer, as "0"/"1" characters.
RECURSIVE ToBinaryString(_)
ToBinaryString(n) ==
  IF n < 2
    THEN <<IF n = 1 THEN "1" ELSE "0">>
    ELSE ToBinaryString(n \div 2) \o <<IF n % 2 = 1 THEN "1" ELSE "0">>

\* String.prototype.padStart(width, fill) for a one-character fill.
RECURSIVE padStart(_, _, _)
padStart(s, width, fill) ==
  IF Len(s) >= width THEN s ELSE padStart(<<fill>> \o s, width, fill)

\* parseInt(s, 2) of a string of "0"/"1" characters.
RECURSIVE ParseBinary(_)
ParseBinary(s) ==
  IF Len(s) = 0
    THEN 0
    ELSE 2 * ParseBinary(SubSeq(s, 1, Len(s) - 1))
           + (IF s[Len(s)] = "1" THEN 1 ELSE 0)

-----------------------------------------------------------------------------
(* base32ToBytes (promise-chain variant's decoder).                        *)

\* const clean = base32.replace(/=+$/, "").toUpperCase().replace(/[^A-Z2-7]/g, '')
CleanBase32(base32) == RemoveOutsideClass(toUpperCase(StripTrailingPad(base32)))

CharBitsUnpadded(char) == ToBinaryString(IndexOf(alphabet, char))

\* bits += val.toString(2).padStart(5, "0")
CharBits(char) == padStart(ToBinaryString(IndexOf(alphabet, char)), 5, "0")

\* for (let char of clean) { ... bits += ... }
RECURSIVE BitsOf(_)
BitsOf(clean) ==
  IF Len(clean) = 0
    THEN <<>>
    ELSE CharBits(Head(clean)) \o BitsOf(Tail(clean))

RECURSIVE BytesOfBitsKeepingRest(_, _)
BytesOfBitsKeepingRest(bits, i) ==
  IF i < Len(bits)
    THEN <<ParseBinary(SubSeq(bits, i + 1, IF i + 8 <= Len(bits) THEN i + 8 ELSE Len(bits)))>>
         \o BytesOfBitsKeepingRest(bits, i + 8)
    ELSE <<>>

\* for (let i = 0; i + 8 <= bits.length; i += 8) bytes.push(parseInt(bits.substring(i, i + 8), 2))
RECURSIVE BytesOfBits(_, _)
BytesOfBits(bits, i) ==
  IF i + 8 <= Len(bits)
    THEN <<ParseBinary(SubSeq(bits, i + 1, i + 8))>> \o BytesOfBits(bits, i + 8)
    ELSE <<>>

base32ToBytes(base32) == BytesOfBits(BitsOf(CleanBase32(base32)), 0)

-----------------------------------------------------------------------------
(* base32toBytes (async variant's decoder).                                *)

\* the loop leaving at the first character outside the alphabet
RECURSIVE BitsStoppingAtInvalid(_)
BitsStoppingAtInvalid(base32) ==
  IF Len(base32) = 0 \/ IndexOf(alphabet, Head(base32)) < 0
    THEN <<>>
    ELSE padStart(ToBinaryString(IndexOf(alphabet, Head(base32))), 5, "0")
         \o BitsStoppingAtInvalid(Tail(base32))

\* for (i...) { val = base32chars.indexOf(base32.charAt(i)); if (val < 0) continue;
\*              bits += val.toString(2).padStart(5, '0') }
RECURSIVE BitsSkipping(_)
BitsSkipping(base32) ==
  IF Len(base32) = 0
    THEN <<>>
    ELSE (IF IndexOf(alphabet, Head(base32)) < 0
            THEN <<>>
            ELSE padStart(ToBinaryString(IndexOf(alphabet, Head(base32))), 5, "0"))
         \o BitsSkipping(Tail(base32))

\* base32 = base32.toUpperCase().replace(/=+$/, '')
base32toBytes(base32) ==
  BytesOfBits(BitsSkipping(StripTrailingPad(toUpperCase(base32))), 0)

-----------------------------------------------------------------------------
(* JavaScript Numbers as limbs, and the Int32 bitwise operators.           *)

LimbBase == 2^16

\* Math.floor(n / d) for a limb number n and a divisor d < 32768.
RECURSIVE DivLimbs(_, _, _)
DivLimbs(n, d, rem) ==
  IF Len(n) = 0
    THEN <<>>
    ELSE LET cur == rem * LimbBase + Head(n)
         IN  <<cur \div d>> \o DivLimbs(Tail(n), d, cur % d)

FloorDiv(n, d) == DivLimbs(n, d, 0)

MinInt32 == -2147483647 - 1

\* bit i (0..31) of the two's-complement Int32 x
Int32Bit(x, i) ==
  IF i = 31
    THEN (IF x < 0 THEN 1 ELSE 0)
    ELSE ((IF x < 0 THEN x - MinInt32 ELSE x) \div (2^i)) % 2

RECURSIVE SumBits(_, _)
SumBits(bit, i) ==
  IF i < 0 THEN 0 ELSE bit[i] * (2^i) + SumBits(bit, i - 1)

\* the Int32 whose bits are bit[0..31]
Int32OfBits(bit) == SumBits(bit, 30) + (IF bit[31] = 1 THEN MinInt32 ELSE 0)

\* a & b
BitAnd(a, b) == Int32OfBits([i \in 0..31 |-> Int32Bit(a, i) * Int32Bit(b, i)])

\* a | b
BitOr(a, b) ==
  Int32OfBits([i \in 0..31 |->
                 IF Int32Bit(a, i) + Int32Bit(b, i) > 0 THEN 1 ELSE 0])

\* a << n for 0 <= a < 2^31, 0 <= n <= 31: bits shifted out at the top are lost
ShiftLeft(a, n) ==
  Int32OfBits([i \in 0..31 |-> IF i < n THEN 0 ELSE Int32Bit(a, i - n)])

\* a % m as JavaScript computes it: the sign follows the dividend
JsRemainder(a, m) ==
  IF a >= 0 THEN a % m
  ELSE IF a % m = 0 THEN 0 ELSE (a % m) - m

Digits == <<"0","1","2","3","4","5","6","7","8","9">>

RECURSIVE DecimalDigits(_)
DecimalDigits(n) ==
  IF n < 10 THEN <<Digits[n + 1]>>
  ELSE DecimalDigits(n \div 10) \o <<Digits[(n % 10) + 1]>>

\* Number.prototype.toString() of an integer above MinInt32
NumberToString(n) ==
  IF n < 0 THEN <<"-">> \o DecimalDigits(0 - n) ELSE DecimalDigits(n)

-----------------------------------------------------------------------------
(* generateTOTP: the synchronous part.                                     *)

\* the two generateTOTP definitions: the promise chain of spa.js and the async
\* function of genTotp.js
Variants == {"chain", "async"}

\* const key = base32ToBytes(secret)   (chain) / base32toBytes(secret)   (async)
DecodeSecret(v, secret) ==
  IF v = "chain" THEN base32ToBytes(secret) ELSE base32toBytes(secret)

TimeCounterInSeconds(v, ms) == FloorDiv(ms, 1000)

\* the async expression without the division by 1000
TimeCounterInMilliseconds(v, ms) ==
  IF v = "chain" THEN FloorDiv(FloorDiv(ms, 1000), 30) ELSE FloorDiv(ms, 30)

\* chain: epoch = Math.floor(Date.now() / 1000); time = Math.floor(epoch / 30)
\* async: counter = Math.floor(Date.now() / 1000 / interval), interval = 30
TimeCounter(v, ms) ==
  IF v = "chain" THEN FloorDiv(FloorDiv(ms, 1000), 30) ELSE FloorDiv(ms, 30000)

\* new ArrayBuffer(8)
ZeroBuffer == <<0, 0, 0, 0, 0, 0, 0, 0>>

\* DataView.prototype.setUint32(byteOffset, value): value modulo 2^32, big-endian
setUint32(buffer, byteOffset, value) ==
  LET hi == value[3]
      lo == value[4]
      be == <<hi \div 256, hi % 256, lo \div 256, lo % 256>>
  IN  [i \in 1..Len(buffer) |->
         IF i > byteOffset /\ i <= byteOffset + 4
           THEN be[i - byteOffset]
           ELSE buffer[i]]

\* view.setUint32(4, time)
CounterBuffer(time) == setUint32(ZeroBuffer, 4, time)

-----------------------------------------------------------------------------
(* The platform's HMAC-SHA1: a fixed function of (key, message) to 20      *)
(* bytes.  Which function it is is left open: hmacSeed picks one.          *)

\* a 20-byte digest whose last byte is hi*16 + o and whose bytes o..o+3 are w
DigestWith(o, hi, w) ==
  [i \in 1..20 |->
     IF i = 20 THEN hi * 16 + o
     ELSE IF i - 1 >= o /\ i - 1 <= o + 3 THEN w[i - o]
     ELSE 238]

DigestPool ==
  << DigestWith(0, 0, <<0, 0, 0, 5>>),
     DigestWith(15, 10, <<255, 255, 255, 255>>),
     DigestWith(7, 0, <<128, 0, 48, 57>>),
     DigestWith(15, 0, <<0, 15, 66, 64>>),
     DigestWith(3, 1, <<127, 0, 0, 1>>),
     DigestWith(10, 15, <<200, 100, 50, 25>>) >>

HmacSeeds == {0, 1}

RECURSIVE Weighted(_)
Weighted(s) == IF Len(s) = 0 THEN 0 ELSE Len(s) * s[Len(s)] + Weighted(SubSeq(s, 1, Len(s) - 1))

RECURSIVE SumBytes(_)
SumBytes(s) == IF Len(s) = 0 THEN 0 ELSE Head(s) + SumBytes(Tail(s))

HmacSha1(seed, key, message) ==
  DigestPool[((seed + Weighted(key) + SumBytes(message)) % Len(DigestPool)) + 1]

-----------------------------------------------------------------------------
(* generateTOTP: dynamic truncation and formatting (the sign callback).    *)

\* bytes[k] of a Uint8Array
ByteAt(bytes, k) == bytes[k + 1]

\* const offset = bytes[bytes.length - 1] & 0xf
TruncOffset(bytes) == BitAnd(ByteAt(bytes, Len(bytes) - 1), 15)

HighByteUnmasked(b) == BitAnd(b, 255)

\* (bytes[offset] & 0x7f)
HighByte(b) == BitAnd(b, 127)

\* chain: (bytes[offset + k] & 0xff)      async: hmacBytes[offset + k]
LowByte(v, b) == IF v = "chain" THEN BitAnd(b, 255) ELSE b

\* const binary = (... << 24) | (... << 16) | (... << 8) | (...)
TruncBinary(v, bytes, offset) ==
  BitOr(BitOr(BitOr(ShiftLeft(HighByte(ByteAt(bytes, offset)), 24),
                    ShiftLeft(LowByte(v, ByteAt(bytes, offset + 1)), 16)),
              ShiftLeft(LowByte(v, ByteAt(bytes, offset + 2)), 8)),
        LowByte(v, ByteAt(bytes, offset + 3)))

\* const otp = binary % 1000000
OtpOf(binary) == JsRemainder(binary, 1000000)

FormatOtpUnpadded(otp) == NumberToString(otp)

\* return otp.toString().padStart(6, '0')
FormatOtp(otp) == padStart(NumberToString(otp), 6, "0")

-----------------------------------------------------------------------------
(* generateTOTP as a process: one record per call, one step per            *)
(* suspension point (importKey settles, sign settles).                     *)

Secrets ==
  { <<"j","b"," ","s","w","=">>,
    <<"M","Z","X","W">>,
    <<>>,
    <<"1","=">>,
    <<"a">> }

\* Date.now() readings, in milliseconds: 1700000000000, 1700000009999 (the last
\* millisecond of that 30 s window), 1700000010000 (the next window's first)
\* and 30000 * 2^32 (the first reading whose counter needs more than 32 bits)
ClockReadings ==
  { <<0, 395, 53221, 26624>>,
    <<0, 395, 53221, 36623>>,
    <<0, 395, 53221, 36624>>,
    <<0, 30000, 0, 0>> }

\* the locals of a call after the synchronous part, importKey("raw", key, ...) pending
StartCall(v, secret, ms) ==
  LET key == DecodeSecret(v, secret)
      buffer == CounterBuffer(TimeCounter(v, ms))
  IN  [ secret |-> secret, ms |-> ms, key |-> key, buffer |-> buffer,
        pc |-> "importKey", importArg |-> key, failure |-> "none",
        signature |-> <<>>, offset |-> -1, binary |-> -1, result |-> <<>> ]

SignedMessageShared(c, others) ==
  IF others = {} THEN c.buffer ELSE (CHOOSE o \in others : TRUE).buffer

\* the synchronous part for every argument and clock reading (tabulated once)
StartLocals ==
  [v \in Variants, secret \in Secrets, ms \in ClockReadings |-> StartCall(v, secret, ms)]

\* the buffer the call hands to crypto.subtle.sign: its own local
SignedMessage(c, others) == c.buffer

OnPrimitiveFailureSwallowed(c, err) ==
  [c EXCEPT !.pc = "resolved", !.failure = err, !.result = <<"0","0","0","0","0","0">>]

\* a rejection of importKey or sign passes through the .then chain / the await
OnPrimitiveFailure(c, err) ==
  [c EXCEPT !.pc = "rejected", !.failure = err, !.result = <<err>>]

\* the locals of the sign callback for each digest the platform can return
\* (tabulated once: the callback is a pure function of the signature)
SignLocals ==
  [v \in Variants, signature \in Range(DigestPool) |->
     LET offset == TruncOffset(signature)
         binary == TruncBinary(v, signature, offset)
     IN  [offset |-> offset, binary |-> binary, result |-> FormatOtp(OtpOf(binary))]]

\* the sign callback: signature => { ...; return otp.toString().padStart(6, '0') }
OnSignature(v, c, signature) ==
  [c EXCEPT !.pc = "resolved", !.signature = signature,
            !.offset = SignLocals[v, signature].offset,
            !.binary = SignLocals[v, signature].binary,
            !.result = SignLocals[v, signature].result]

InitTotp ==
  /\ variant \in Variants
  /\ hmacSeed \in HmacSeeds
  /\ calls = {}
  /\ decIn = <<>>
  /\ decOut = <<"none">>
  /\ decPc = "idle"
  /\ decAlt = <<>>
  /\ decAltOut = <<"none">>
  /\ loaded = FALSE
  /\ hash = <<>>
  /\ form = <<>>
  /\ linuxPopup = FALSE
  /\ confirmResult = "none"
  /\ popupScript = "none"
  /\ autofill = <<>>
  /\ tabHash = <<>>
  /\ display = {}
  /\ store = <<>>
  /\ storageQ = <<>>
  /\ timers = {}
  /\ inflight = {}
  /\ viewName = <<>>
  /\ viewCode = <<>>
  /\ rows = <<>>
  /\ listReady = FALSE
  /\ window = 0

\* generateTOTP(secret) is called while Date.now() reads ms
Call(secret, ms) ==
  /\ Cardinality(calls) < MaxCalls
  /\ \A c \in calls : c.secret # secret \/ c.ms # ms
  /\ calls' = calls \cup {StartLocals[variant, secret, ms]}
  /\ UNCHANGED <<variant, hmacSeed, decVars, uiVars>>

\* importKey resolves with a CryptoKey; Web Crypto imports no zero-length HMAC key
ImportKeyResolve(c) ==
  /\ c.pc = "importKey"
  /\ Len(c.importArg) > 0
  /\ calls' = (calls \ {c}) \cup {[c EXCEPT !.pc = "sign"]}
  /\ UNCHANGED <<variant, hmacSeed, decVars, uiVars>>

\* importKey rejects: DataError for a zero-length key, else a platform failure
ImportKeyReject(c) ==
  /\ c.pc = "importKey"
  /\ calls' = (calls \ {c}) \cup
       {OnPrimitiveFailure(c, IF Len(c.importArg) = 0 THEN "DataError"
                                                      ELSE "NotSupportedError")}
  /\ UNCHANGED <<variant, hmacSeed, decVars, uiVars>>

\* sign resolves with the 20-byte digest and the callback computes the code
SignResolve(c) ==
  /\ c.pc = "sign"
  /\ calls' = (calls \ {c}) \cup
       {OnSignature(variant, c,
                    HmacSha1(hmacSeed, c.key, SignedMessage(c, calls \ {c})))}
  /\ UNCHANGED <<variant, hmacSeed, decVars, uiVars>>

\* sign rejects
SignReject(c) ==
  /\ c.pc = "sign"
  /\ calls' = (calls \ {c}) \cup {OnPrimitiveFailure(c, "OperationError")}
  /\ UNCHANGED <<variant, hmacSeed, decVars, uiVars>>

NextTotp ==
  \/ \E secret \in Secrets, ms \in ClockReadings : Call(secret, ms)
  \/ \E c \in calls : ImportKeyResolve(c)
  \/ \E c \in calls : ImportKeyReject(c)
  \/ \E c \in calls : SignResolve(c)
  \/ \E c \in calls : SignReject(c)

SpecTotp == InitTotp /\ [][NextTotp]_vars

-----------------------------------------------------------------------------
(* Decoder harness: one input string decoded once, then a second spelling  *)
(* of it.                                                                  *)

InputStrings == UNION {[1..n -> InputChars] : n \in 0..MaxLen}

\* String.prototype.toLowerCase on the characters of the model
LowerChar(c) ==
  IF IndexOf(UpperLetters, c) >= 0 THEN LowerLetters[IndexOf(UpperLetters, c) + 1] ELSE c

\* the input characters that are neither alphabet characters nor lower-case
\* forms of alphabet letters
NonAlphabetChars ==
  {c \in InputChars : c \notin Range(alphabet) \cup Range(LowerLetters)}

\* s with c inserted after its first i characters
InsertAt(s, i, c) == SubSeq(s, 1, i) \o <<c>> \o SubSeq(s, i + 1, Len(s))

\* other spellings of an input: its letters lower-cased, its non-alphabet
\* characters removed, a non-alphabet character inserted anywhere
Respellings(s) ==
  {[i \in 1..Len(s) |-> LowerChar(s[i])]}
    \cup {SelectSeq(s, LAMBDA c : c \notin NonAlphabetChars)}
    \cup {InsertAt(s, i, c) : i \in 0..Len(s), c \in NonAlphabetChars}

\* the harness before the first call: nothing decoded, the rest idle
HarnessStart ==
  /\ decOut = <<"none">>
  /\ decPc = "ready"
  /\ decAlt = <<>>
  /\ decAltOut = <<"none">>
  /\ variant \in Variants
  /\ hmacSeed = 0
  /\ calls = {}
  /\ loaded = FALSE
  /\ hash = <<>>
  /\ form = <<>>
  /\ linuxPopup = FALSE
  /\ confirmResult = "none"
  /\ popupScript = "none"
  /\ autofill = <<>>
  /\ tabHash = <<>>
  /\ display = {}
  /\ store = <<>>
  /\ storageQ = <<>>
  /\ timers = {}
  /\ inflight = {}
  /\ viewName = <<>>
  /\ viewCode = <<>>
  /\ rows = <<>>
  /\ listReady = FALSE
  /\ window = 0

InitDecode ==
  /\ decIn \in InputStrings
  /\ HarnessStart

InitRespell ==
  /\ decIn \in {s \in InputStrings : Len(s) <= MaxRespelt}
  /\ HarnessStart

\* the decoder of the variant called on the input
Decode ==
  /\ decPc = "ready"
  /\ decOut' = <<"bytes", DecodeSecret(variant, decIn)>>
  /\ decPc' = "done"
  /\ UNCHANGED <<decIn, decAlt, decAltOut, totpVars, uiVars>>

\* the same decoder called on a second spelling of the input
DecodeAlt(alt) ==
  /\ decPc = "done"
  /\ decAlt' = alt
  /\ decAltOut' = <<"bytes", DecodeSecret(variant, alt)>>
  /\ decPc' = "both"
  /\ UNCHANGED <<decIn, decOut, totpVars, uiVars>>

NextDecode == Decode

SpecDecode == InitDecode /\ [][NextDecode]_vars

NextRespell ==
  \/ Decode
  \/ \E alt \in Respellings(decIn) : DecodeAlt(alt)

SpecRespell == InitRespell /\ [][NextRespell]_vars

-----------------------------------------------------------------------------
(* The popup (spa.js as extended with list codes, Fill and Delete): hash   *)
(* routing, the list and view pages, their refresh timers, and the store.  *)
(* A generation is followed from its call to its settlement; the code it   *)
(* resolves to is named by the secret and the 30-second window it was      *)
(* computed for.                                                           *)

\* the hashes the popup itself navigates to, and the prefix of a view hash
HashList == <<"#","l","i","s","t">>
HashAddNew == <<"#","a","d","d","n","e","w">>
HashView == <<"#","v","i","e","w">>
ViewPrefix == HashView \o <<"/">>

\* String.prototype.startsWith
startsWith(s, prefix) == Len(s) >= Len(prefix) /\ SubSeq(s, 1, Len(prefix)) = prefix

\* String.prototype.split for a one-character separator
RECURSIVE split(_, _)
split(s, sep) ==
  IF IndexOf(s, sep) < 0
    THEN <<s>>
    ELSE <<SubSeq(s, 1, IndexOf(s, sep))>>
           \o split(SubSeq(s, IndexOf(s, sep) + 2, Len(s)), sep)

\* String.prototype.trim, whitespace being the space character
RECURSIVE trim(_)
trim(s) ==
  IF Len(s) > 0 /\ Head(s) = " " THEN trim(Tail(s))
  ELSE IF Len(s) > 0 /\ s[Len(s)] = " " THEN trim(SubSeq(s, 1, Len(s) - 1))
  ELSE s

HexDigits == <<"0","1","2","3","4","5","6","7","8","9","A","B","C","D","E","F">>

\* the value of a hexadecimal digit in either case, -1 for any other character
HexValue(c) ==
  IF IndexOf(HexDigits, c) >= 0 THEN IndexOf(HexDigits, c)
  ELSE IF IndexOf(<<"a","b","c","d","e","f">>, c) >= 0
    THEN 10 + IndexOf(<<"a","b","c","d","e","f">>, c)
  ELSE -1

\* code units of the characters of the model that encodeURIComponent escapes
\* or that an escape of the model's hashes decodes to
CharCode ==
  (" " :> 32) @@ ("\"" :> 34) @@ ("#" :> 35) @@ ("%" :> 37) @@ ("*" :> 42) @@ ("/" :> 47)

\* the characters encodeURIComponent escapes, among those of the model
Escaped == {" ", "\"", "#", "%", "/"}

\* encodeURIComponent
RECURSIVE encodeURIComponent(_)
encodeURIComponent(s) ==
  IF Len(s) = 0 THEN <<>>
  ELSE (IF Head(s) \in Escaped
          THEN <<"%", HexDigits[(CharCode[Head(s)] \div 16) + 1],
                      HexDigits[(CharCode[Head(s)] % 16) + 1]>>
          ELSE <<Head(s)>>)
       \o encodeURIComponent(Tail(s))

\* the character of an escaped octet below 0x80
FromCharCode(n) ==
  IF \E c \in DOMAIN CharCode : CharCode[c] = n
    THEN CHOOSE c \in DOMAIN CharCode : CharCode[c] = n
    ELSE "?"

\* decodeURIComponent: <<"ok", string>>, or <<"URIError">> for a "%" not
\* followed by two hexadecimal digits and for an octet of 0x80 or more
\* that does not start a complete UTF-8 sequence (none does in the hashes of
\* the model)
RECURSIVE decodeURIComponent(_)
decodeURIComponent(s) ==
  IF Len(s) = 0 THEN <<"ok", <<>>>>
  ELSE IF Head(s) # "%"
    THEN LET rest == decodeURIComponent(Tail(s))
         IN  IF rest[1] = "ok" THEN <<"ok", <<Head(s)>> \o rest[2]>> ELSE rest
  ELSE IF Len(s) < 3 \/ HexValue(s[2]) < 0 \/ HexValue(s[3]) < 0
            \/ 16 * HexValue(s[2]) + HexValue(s[3]) >= 128
    THEN <<"URIError">>
    ELSE LET rest == decodeURIComponent(SubSeq(s, 4, Len(s)))
         IN  IF rest[1] = "ok"
               THEN <<"ok", <<FromCharCode(16 * HexValue(s[2]) + HexValue(s[3]))>> \o rest[2]>>
               ELSE rest

\* routes[hash] || routes["#list"]: the page of the route and whether its
\* loader gets a name
RouteOf(h) ==
  IF h = HashAddNew THEN "page-add"
  ELSE IF h = HashView THEN "page-view"
  ELSE "page-list"

\* data.keys[name] of a name that is not stored
Undefined == <<"undefined">>

\* String(undefined): the name loadViewPage() has when called without one
UndefinedName == <<"u","n","d","e","f","i","n","e","d">>

\* the account stored when the popup opens
InitialName == <<"a">>
InitialSecret == <<"j","b"," ","s","w","=">>

\* the keys object: its own properties in insertion order
InitialKeys == <<[name |-> InitialName, secret |-> InitialSecret]>>

\* Object.keys(keys)
KeyNames(keys) == {keys[i].name : i \in 1..Len(keys)}

\* data.keys[name]
Lookup(keys, name) ==
  IF name \in KeyNames(keys)
    THEN keys[CHOOSE i \in 1..Len(keys) : keys[i].name = name].secret
    ELSE Undefined

SetKeyAppending(keys, name, secret) == Append(keys, [name |-> name, secret |-> secret])

\* keys[name] = secret
SetKey(keys, name, secret) ==
  IF name \in KeyNames(keys)
    THEN [i \in 1..Len(keys) |->
            IF keys[i].name = name THEN [name |-> name, secret |-> secret] ELSE keys[i]]
    ELSE Append(keys, [name |-> name, secret |-> secret])

\* a removal that also drops the entries enumerated after name
WithoutKeyOrLater(keys, name) ==
  IF \E i \in 1..Len(keys) : keys[i].name = name
    THEN SubSeq(keys, 1, (CHOOSE i \in 1..Len(keys) : keys[i].name = name) - 1)
    ELSE keys

\* delete keys[name]
WithoutKey(keys, name) == SelectSeq(keys, LAMBDA e : e.name # name)

\* textContent of a code element
LoadingText == [kind |-> "Loading...", secret |-> <<>>, window |-> 0]
ErrorText == [kind |-> "Error", secret |-> <<>>, window |-> 0]
CodeText(secret, w) == [kind |-> "code", secret |-> secret, window |-> w]

\* a code element: its text, and whether the last generation settled for the
\* account it shows failed
FreshElement == [text |-> LoadingText, failed |-> FALSE]
NoElement == [text |-> [kind |-> "none", secret |-> <<>>, window |-> 0], failed |-> FALSE]

\* a property a message does not have, and what an input shows when it is
\* assigned: String(undefined)
UndefinedText == [kind |-> "undefined", secret |-> <<>>, window |-> 0]
NoText == [kind |-> "none", secret |-> <<>>, window |-> 0]

\* nothing copied, no fill_otp message under way, the page's input untouched
NoAutofill == [clipboard |-> NoText, sends |-> <<>>, input |-> NoText, delivered |-> NoText]

\* the files the popup page may run: part_001 and js/spa.js
PopupScripts == {"part_001", "js/spa.js"}

\* the message of chrome.tabs.sendMessage: handleFill of js/spa.js names the
\* property codeNum, every other handler names it code
FillMessage(script, handler, currentCode) ==
  IF script = "js/spa.js" /\ handler = "handleFill"
    THEN [action |-> "fill_otp", code |-> UndefinedText, codeNum |-> currentCode]
    ELSE [action |-> "fill_otp", code |-> currentCode, codeNum |-> UndefinedText]

\* if (code === "Loading..." || code === "Error") return;  (absent from the
\* view page's fill handler of js/spa.js)
FillGuarded(script, handler) == ~(script = "js/spa.js" /\ handler = "view")

\* a Fill handler called with the text of a code element: the guard,
\* navigator.clipboard.writeText, then chrome.tabs.query and sendMessage
Fill(handler, currentCode) ==
  /\ Len(autofill.sends) < MaxFills
  /\ autofill' =
       IF FillGuarded(popupScript, handler) /\ currentCode.kind \in {"Loading...", "Error"}
         THEN autofill
         ELSE [autofill EXCEPT
                 !.clipboard = currentCode,
                 !.sends = Append(@, [currentCode |-> currentCode,
                                      msg |-> FillMessage(popupScript, handler, currentCode)])]

\* the fields of the add page: key-name, key-secret and qr-status
EmptyForm == [name |-> <<>>, secret |-> <<>>, status |-> "", files |-> {}]

\* chrome.storage.sync.get({ keys: {} }, callback) and .set({ keys }, callback),
\* with what the callback's closure holds
GetRequest(cont, name) ==
  [op |-> "get", cont |-> cont, name |-> name, secret |-> <<>>, keys |-> <<>>]
SaveRequest(name, secret) ==
  [op |-> "get", cont |-> "save", name |-> name, secret |-> secret, keys |-> <<>>]
SetRequest(cont, keys) ==
  [op |-> "set", cont |-> cont, name |-> <<>>, secret |-> <<>>, keys |-> keys]

\* the continuations of the add.html tab's requests: saveManualKey's get
\* callback and its set callback
TabConts == {"tabsave", "tabdone"}

\* generateTOTP(secret) throws before returning a promise: the promise-chain
\* variant calls base32.replace on undefined outside any promise
ThrowsSynchronously(v, secret) == v = "chain" /\ secret = Undefined

\* the promise of generateTOTP(secret) can resolve: the secret is a string
\* whose key importKey accepts
CanResolve(v, secret) == secret # Undefined /\ Len(DecodeSecret(v, secret)) > 0

\* setInterval(updateCode, 30000) of a list row / of the view page
RowTimer(name, secret) ==
  [owner |-> "list", name |-> name, secret |-> secret, attached |-> TRUE, listener |-> FALSE]
ViewTimer(name, secret, listener) ==
  [owner |-> "view", name |-> name, secret |-> secret, attached |-> FALSE, listener |-> listener]

RowPromiseStale(name, secret, w, attached) ==
  [target |-> "row", name |-> name, secret |-> secret, window |-> 0, attached |-> attached]

\* the pending promise of updateCode's generateTOTP(secret) call
RowPromise(name, secret, w, attached) ==
  [target |-> "row", name |-> name, secret |-> secret, window |-> w, attached |-> attached]
ViewPromise(name, secret, w) ==
  [target |-> "view", name |-> name, secret |-> secret, window |-> w, attached |-> FALSE]

\* no element has more than MaxInflight unsettled promises
WithinBudget(S) ==
  \A p \in S : Cardinality({q \in S : q.name = p.name}) <= MaxInflight

\* container.innerHTML = ... of page-list detaches the rows rendered before
DetachRows(S) == {[x EXCEPT !.attached = FALSE] : x \in S}

\* window.addEventListener("hashchange", () => clearInterval(interval), { once: true })
\* of every view timer that registered it
ClearListened(ts) == {t \in ts : ~t.listener}

\* loadViewPage(name); page-view shown
ShowView(name, q, ts) ==
  /\ viewName' = name
  /\ viewCode' = FreshElement
  /\ storageQ' = Append(q, GetRequest("view", name))
  /\ display' = {"page-view"}
  /\ timers' = ts
  /\ UNCHANGED <<rows, listReady, inflight, form>>

\* showPage(h), with q the storage requests issued so far and ts the timers
\* left by the hashchange listeners
ShowPage(h, q, ts) ==
  IF startsWith(h, ViewPrefix)
    THEN IF decodeURIComponent(split(h, "/")[2])[1] = "ok"
           THEN ShowView(decodeURIComponent(split(h, "/")[2])[2], q, ts)
           ELSE \* decodeURIComponent throws after every page was hidden
                /\ display' = {}
                /\ storageQ' = q
                /\ timers' = ts
                /\ UNCHANGED <<viewName, viewCode, rows, listReady, inflight, form>>
  ELSE IF RouteOf(h) = "page-view"
    THEN \* routes["#view"].loader() is loadViewPage without a name
         ShowView(UndefinedName, q, ts)
  ELSE IF RouteOf(h) = "page-add"
    THEN \* loadAddPage(); page-add shown
         /\ form' = EmptyForm
         /\ display' = {"page-add"}
         /\ storageQ' = q
         /\ timers' = ts
         /\ UNCHANGED <<viewName, viewCode, rows, listReady, inflight>>
    ELSE \* loadListPage(); page-list shown
         /\ rows' = <<>>
         /\ listReady' = FALSE
         /\ timers' = DetachRows(ts)
         /\ inflight' = DetachRows(inflight)
         /\ storageQ' = Append(q, GetRequest("list", <<>>))
         /\ display' = {"page-list"}
         /\ UNCHANGED <<viewName, viewCode, form>>

\* the hash once showPage(h) and the hashchange it triggers are handled: in
\* the Linux popup showPage("#addnew") opens add.html in a tab
\* (chrome.tabs.create) and sets location.hash = "#list"
SettledHash(h) == IF h = HashAddNew /\ linuxPopup THEN HashList ELSE h

\* location.hash = h: a hashchange event only if the hash changes; its
\* listeners are showPage(location.hash) and the once-listeners of view timers
SetHash(h, q) ==
  /\ hash' = IF h = hash THEN hash ELSE SettledHash(h)
  /\ IF h = hash
       THEN /\ storageQ' = q
            /\ UNCHANGED <<display, timers, inflight, viewName, viewCode, rows, listReady, form>>
       ELSE ShowPage(SettledHash(h), q, ClearListened(timers))

\* what the user types into key-name and key-secret: a blank name, the stored
\* name with another secret, a new name with spaces around it
TypedForms ==
  { [name |-> <<" ">>, secret |-> <<"M","Z","X","W">>],
    [name |-> InitialName, secret |-> <<"M","Z","X","W">>],
    [name |-> <<" ", "b", " ">>, secret |-> <<"M","Z","X","W">>] }

\* the otpauth URIs of scanned QR codes, as what parseOtpAuthUri takes from
\* them: whether the URI starts with "otpauth://totp/", the label before "?",
\* and params.get("secret") and params.get("issuer") (<<>> for null or "")
ScannedUris ==
  { [totp |-> TRUE,  label |-> <<"b">>, secret |-> <<"M","Z","X","W">>, issuer |-> <<>>],
    [totp |-> TRUE,  label |-> <<"b">>, secret |-> <<>>, issuer |-> <<>>],
    [totp |-> FALSE, label |-> <<"b">>, secret |-> <<"M","Z","X","W">>, issuer |-> <<>>] }

\* "otpauth://totp/%?issuer=": no secret parameter, and a label that is not
\* a well-formed percent-encoding
MalformedUris ==
  { [totp |-> TRUE, label |-> <<"%">>, secret |-> <<>>, issuer |-> <<>>] }

\* String.prototype.includes
includes(s, sub) ==
  \E i \in 0..(Len(s) - Len(sub)) : SubSeq(s, i + 1, i + Len(sub)) = sub

\* parseOtpAuthUri: name = decodeURIComponent(label);
\* if (issuer && !name.includes(issuer)) name = issuer + " (" + name + ")"
ScannedName(uri) ==
  LET name == decodeURIComponent(uri.label)[2]
  IN  IF Len(uri.issuer) > 0 /\ ~includes(name, uri.issuer)
        THEN uri.issuer \o <<" ", "(">> \o name \o <<")">>
        ELSE name

\* the popup before its window load event, everything else idle
PopupStartOf(keys, script) ==
  /\ hmacSeed = 0
  /\ calls = {}
  /\ decIn = <<>>
  /\ decOut = <<"none">>
  /\ decPc = "idle"
  /\ decAlt = <<>>
  /\ decAltOut = <<"none">>
  /\ loaded = FALSE
  /\ display = {}
  /\ store = keys
  /\ storageQ = <<>>
  /\ timers = {}
  /\ inflight = {}
  /\ viewName = <<>>
  /\ viewCode = NoElement
  /\ rows = <<>>
  /\ listReady = FALSE
  /\ form = EmptyForm
  /\ confirmResult = "none"
  /\ window = 0
  /\ popupScript = script
  /\ autofill = NoAutofill
  /\ tabHash = <<>>

\* the popup page running the script of part_001
PopupStartWith(keys) == PopupStartOf(keys, "part_001")

\* the popup of a user with one stored account
PopupStart == PopupStartWith(InitialKeys)

InitUi ==
  /\ hash = <<>>
  /\ linuxPopup \in BOOLEAN
  /\ variant \in Variants
  /\ PopupStart

\* the popup where Add New leads to its own add page
InitStore ==
  /\ hash = <<>>
  /\ linuxPopup = FALSE
  /\ variant = "async"
  /\ PopupStart

\* window "load": showPage(location.hash || "#list")
PageLoad ==
  /\ ~loaded
  /\ loaded' = TRUE
  /\ hash' = SettledHash(hash)
  /\ ShowPage(IF hash = <<>> THEN HashList ELSE SettledHash(hash), storageQ, timers)
  /\ UNCHANGED <<store, window, linuxPopup, confirmResult, decVars, totpVars, extVars>>

\* a row's View button: location.hash = `#view/${encodeURIComponent(name)}`
ClickView(name) ==
  /\ loaded
  /\ "page-list" \in display
  /\ name \in DOMAIN rows
  /\ SetHash(ViewPrefix \o encodeURIComponent(name), storageQ)
  /\ UNCHANGED <<loaded, store, window, linuxPopup, confirmResult, decVars, totpVars, extVars>>

\* the list's Add New button: in the Linux popup chrome.tabs.create opens
\* add.html in a tab, otherwise location.hash = "#addnew"
ClickAddNew ==
  /\ loaded
  /\ "page-list" \in display
  /\ listReady
  /\ IF linuxPopup
       THEN UNCHANGED <<hash, storageQ, display, timers, inflight, viewName, viewCode,
                        rows, listReady, form>>
       ELSE SetHash(HashAddNew, storageQ)
  /\ UNCHANGED <<loaded, store, window, linuxPopup, confirmResult, decVars, totpVars, extVars>>

\* a Back button (view page or add page): location.hash = "#list"
ClickBack ==
  /\ loaded
  /\ display \cap {"page-view", "page-add"} # {}
  /\ SetHash(HashList, storageQ)
  /\ UNCHANGED <<loaded, store, window, linuxPopup, confirmResult, decVars, totpVars, extVars>>

deleteKeyUnconfirmed(name, confirmed, q) == Append(q, GetRequest("delete", name))

\* deleteKey(name): if (confirm("Delete " + name + "?")) chrome.storage.sync.get(...)
deleteKey(name, confirmed, q) ==
  IF confirmed THEN Append(q, GetRequest("delete", name)) ELSE q

\* the view page's Delete button: deleteKey(name); location.hash = "#list"
ClickDelete(confirmed) ==
  /\ loaded
  /\ "page-view" \in display
  /\ confirmResult' = IF confirmed THEN "ok" ELSE "cancel"
  /\ SetHash(HashList, deleteKey(viewName, confirmed, storageQ))
  /\ UNCHANGED <<loaded, store, window, linuxPopup, decVars, totpVars, extVars>>

\* the user edits the key-name and key-secret fields of the add page
TypeForm(typed) ==
  /\ loaded
  /\ "page-add" \in display
  /\ form' = [form EXCEPT !.name = typed.name, !.secret = typed.secret]
  /\ UNCHANGED <<loaded, hash, pageVars, store, storageQ, window, linuxPopup, confirmResult, decVars, totpVars, extVars>>

\* an image chosen in the qr-upload input was decoded on the add page:
\* parseOtpAuthUri(code.data). decodeURIComponent(label) runs before the
\* secret is looked at; its URIError is caught nowhere and ends the handler.
ScanQr(uri) ==
  /\ loaded
  /\ "page-add" \in display
  /\ form' = IF ~uri.totp
               THEN [form EXCEPT !.files = {uri}, !.status = "Invalid TOTP QR."]
             ELSE IF decodeURIComponent(uri.label)[1] # "ok"
               THEN [form EXCEPT !.files = {uri}]
             ELSE IF Len(uri.secret) = 0
               THEN [form EXCEPT !.files = {uri}, !.status = "QR missing secret."]
             ELSE [name |-> ScannedName(uri), secret |-> uri.secret,
                   status |-> "QR data loaded.", files |-> {uri}]
  /\ UNCHANGED <<loaded, hash, pageVars, store, storageQ, window, linuxPopup, confirmResult, decVars, totpVars, extVars>>

\* the Save button: saveManualKey() up to its chrome.storage.sync.get call
ClickSave ==
  /\ loaded
  /\ "page-add" \in display
  /\ Len(SelectSeq(storageQ, LAMBDA r : r.cont \in {"save", "list"})) < MaxSaving
  /\ storageQ' = IF Len(trim(form.name)) = 0 \/ Len(trim(form.secret)) = 0
                   THEN storageQ
                   ELSE Append(storageQ, SaveRequest(trim(form.name), trim(form.secret)))
  /\ UNCHANGED <<loaded, hash, pageVars, form, store, window, linuxPopup, confirmResult, decVars, totpVars, extVars>>

\* saveManualKey's get callback: keys[name] = secret; chrome.storage.sync.set({ keys }, ...)
SaveCallback ==
  /\ storageQ # <<>>
  /\ Head(storageQ).op = "get" /\ Head(storageQ).cont = "save"
  /\ storageQ' = Append(Tail(storageQ),
                        SetRequest("list", SetKey(store, Head(storageQ).name,
                                                  Head(storageQ).secret)))
  /\ UNCHANGED <<loaded, hash, pageVars, form, store, window, linuxPopup, confirmResult, decVars, totpVars, extVars>>

\* saveManualKey's set completes and its callback runs location.hash = "#list"
SetDoneList ==
  /\ storageQ # <<>>
  /\ Head(storageQ).op = "set" /\ Head(storageQ).cont = "list"
  /\ store' = Head(storageQ).keys
  /\ SetHash(HashList, Tail(storageQ))
  /\ UNCHANGED <<loaded, window, linuxPopup, confirmResult, decVars, totpVars, extVars>>

\* loadListPage's storage callback: a row, a first updateCode() and an
\* interval per stored account, then the Add New button
ListCallback ==
  /\ storageQ # <<>>
  /\ Head(storageQ).op = "get" /\ Head(storageQ).cont = "list"
  /\ LET started == {RowPromise(n, Lookup(store, n), window, TRUE) : n \in KeyNames(store)}
     IN  /\ WithinBudget(inflight \cup started)
         /\ inflight' = inflight \cup started
  /\ rows' = [n \in (DOMAIN rows) \cup KeyNames(store) |->
                IF n \in KeyNames(store) THEN FreshElement ELSE rows[n]]
  /\ timers' = timers \cup {RowTimer(n, Lookup(store, n)) : n \in KeyNames(store)}
  /\ listReady' = TRUE
  /\ storageQ' = Tail(storageQ)
  /\ UNCHANGED <<loaded, hash, display, viewName, viewCode, form, store, window,
                 linuxPopup, confirmResult, decVars, totpVars, extVars>>

\* loadViewPage's storage callback: setInterval, updateCode(), then the
\* once-listener that clears the interval (not reached if updateCode throws)
ViewCallback ==
  /\ storageQ # <<>>
  /\ Head(storageQ).op = "get" /\ Head(storageQ).cont = "view"
  /\ LET name == Head(storageQ).name
         secret == Lookup(store, name)
     IN  IF ThrowsSynchronously(variant, secret)
           THEN /\ timers' = timers \cup {ViewTimer(name, secret, FALSE)}
                /\ viewCode' = [viewCode EXCEPT !.failed = (name = viewName) \/ @]
                /\ UNCHANGED inflight
           ELSE /\ WithinBudget(inflight \cup {ViewPromise(name, secret, window)})
                /\ timers' = timers \cup {ViewTimer(name, secret, TRUE)}
                /\ inflight' = inflight \cup {ViewPromise(name, secret, window)}
                /\ UNCHANGED viewCode
  /\ storageQ' = Tail(storageQ)
  /\ UNCHANGED <<loaded, hash, display, viewName, rows, listReady, form, store, window,
                 linuxPopup, confirmResult, decVars, totpVars, extVars>>

\* deleteKey's get callback: delete keys[name]; chrome.storage.sync.set({ keys }, ...)
DeleteCallback ==
  /\ storageQ # <<>>
  /\ Head(storageQ).op = "get" /\ Head(storageQ).cont = "delete"
  /\ storageQ' = Append(Tail(storageQ),
                        SetRequest("reload", WithoutKey(store, Head(storageQ).name)))
  /\ UNCHANGED <<loaded, hash, pageVars, form, store, window, linuxPopup, confirmResult, decVars, totpVars, extVars>>

\* the requests left when the popup page is gone: its pending get callbacks
\* never run, its writes are still made, the add.html tab's requests stay
AfterReload(q) ==
  LET kept == SelectSeq(q, LAMBDA r : r.op = "set" \/ r.cont \in TabConts)
  IN  [i \in 1..Len(kept) |->
         IF kept[i].cont \in TabConts THEN kept[i] ELSE [kept[i] EXCEPT !.cont = "none"]]

\* the set completes and its callback runs location.reload(): the page, its
\* timers, promises and pending callbacks are gone; the hash stays
SetDoneReload ==
  /\ storageQ # <<>>
  /\ Head(storageQ).op = "set" /\ Head(storageQ).cont = "reload"
  /\ store' = Head(storageQ).keys
  /\ storageQ' = AfterReload(Tail(storageQ))
  /\ loaded' = FALSE
  /\ display' = {}
  /\ timers' = {}
  /\ inflight' = {}
  /\ viewName' = <<>>
  /\ viewCode' = NoElement
  /\ rows' = <<>>
  /\ listReady' = FALSE
  /\ form' = EmptyForm
  /\ confirmResult' = "none"
  /\ UNCHANGED <<hash, window, linuxPopup, decVars, totpVars, extVars>>

\* an interval fires: updateCode() calls generateTOTP(secret) on the live clock
TimerFire(t) ==
  /\ loaded
  /\ IF t.owner = "list"
       THEN /\ WithinBudget(inflight \cup {RowPromise(t.name, t.secret, window, t.attached)})
            /\ inflight' = inflight \cup {RowPromise(t.name, t.secret, window, t.attached)}
            /\ UNCHANGED viewCode
       ELSE IF ThrowsSynchronously(variant, t.secret)
         THEN /\ viewCode' = [viewCode EXCEPT !.failed = (t.name = viewName) \/ @]
              /\ UNCHANGED inflight
         ELSE /\ WithinBudget(inflight \cup {ViewPromise(t.name, t.secret, window)})
              /\ inflight' = inflight \cup {ViewPromise(t.name, t.secret, window)}
              /\ UNCHANGED viewCode
  /\ UNCHANGED <<loaded, hash, display, timers, viewName, rows, listReady, form,
                 store, storageQ, window, linuxPopup, confirmResult, decVars, totpVars, extVars>>

\* a generateTOTP promise resolves and updateCode's .then callback writes the code:
\* a row's into its own element, the view page's into document.getElementById("code")
GenResolve(p) ==
  /\ CanResolve(variant, p.secret)
  /\ inflight' = inflight \ {p}
  /\ IF p.target = "row"
       THEN /\ rows' = IF p.attached /\ p.name \in DOMAIN rows
                         THEN [rows EXCEPT ![p.name] =
                                 [text |-> CodeText(p.secret, p.window), failed |-> FALSE]]
                         ELSE rows
            /\ UNCHANGED viewCode
       ELSE /\ viewCode' = [text |-> CodeText(p.secret, p.window),
                            failed |-> IF p.name = viewName THEN FALSE ELSE viewCode.failed]
            /\ UNCHANGED rows
  /\ UNCHANGED <<loaded, hash, display, timers, viewName, listReady, form,
                 store, storageQ, window, linuxPopup, confirmResult, decVars, totpVars, extVars>>

\* a generateTOTP promise rejects: a row's .catch writes "Error"; the view
\* page's updateCode has no rejection handler
GenReject(p) ==
  /\ inflight' = inflight \ {p}
  /\ IF p.target = "row"
       THEN /\ rows' = IF p.attached /\ p.name \in DOMAIN rows
                         THEN [rows EXCEPT ![p.name] = [text |-> ErrorText, failed |-> TRUE]]
                         ELSE rows
            /\ UNCHANGED viewCode
       ELSE /\ viewCode' = [viewCode EXCEPT !.failed = (p.name = viewName) \/ @]
            /\ UNCHANGED rows
  /\ UNCHANGED <<loaded, hash, display, timers, viewName, listReady, form,
                 store, storageQ, window, linuxPopup, confirmResult, decVars, totpVars, extVars>>

\* add.html in a tab: the user types an account and clicks Save;
\* saveManualKey() up to its chrome.storage.sync.get call
TabSave(typed) ==
  /\ tabHash # HashList
  /\ Len(SelectSeq(storageQ, LAMBDA r : r.cont \in TabConts)) < MaxSaving
  /\ storageQ' = IF Len(trim(typed.name)) = 0 \/ Len(trim(typed.secret)) = 0
                   THEN storageQ
                   ELSE Append(storageQ,
                               [op |-> "get", cont |-> "tabsave", name |-> trim(typed.name),
                                secret |-> trim(typed.secret), keys |-> <<>>])
  /\ UNCHANGED <<popupScript, autofill, tabHash, hash, pageVars, form, store, window,
                 linuxPopup, confirmResult, decVars, totpVars>>

\* the tab's get callback: keys[name] = secret; chrome.storage.sync.set({ keys }, ...)
TabSaveCallback ==
  /\ storageQ # <<>>
  /\ Head(storageQ).op = "get" /\ Head(storageQ).cont = "tabsave"
  /\ storageQ' = Append(Tail(storageQ),
                        SetRequest("tabdone", SetKey(store, Head(storageQ).name,
                                                     Head(storageQ).secret)))
  /\ UNCHANGED <<popupScript, autofill, tabHash, hash, pageVars, form, store, window,
                 linuxPopup, confirmResult, decVars, totpVars>>

\* the tab's set completes and its callback runs location.hash = "#list"
TabSetDone ==
  /\ storageQ # <<>>
  /\ Head(storageQ).op = "set" /\ Head(storageQ).cont = "tabdone"
  /\ store' = Head(storageQ).keys
  /\ storageQ' = Tail(storageQ)
  /\ tabHash' = HashList
  /\ UNCHANGED <<popupScript, autofill, hash, pageVars, form, window,
                 linuxPopup, confirmResult, decVars, totpVars>>

\* a row's Fill button: handleFill(code.textContent)
ClickFillRow(name) ==
  /\ loaded
  /\ "page-list" \in display
  /\ name \in DOMAIN rows
  /\ Fill("handleFill", rows[name].text)
  /\ UNCHANGED <<popupScript, tabHash, hash, pageVars, form, store, storageQ, window,
                 linuxPopup, confirmResult, decVars, totpVars>>

\* the view page's Fill button
ClickFillView ==
  /\ loaded
  /\ "page-view" \in display
  /\ Fill("view", viewCode.text)
  /\ UNCHANGED <<popupScript, tabHash, hash, pageVars, form, store, storageQ, window,
                 linuxPopup, confirmResult, decVars, totpVars>>

\* the content script's onMessage listener: otp = msg.code; el.value = otp
onMessage ==
  /\ autofill.sends # <<>>
  /\ autofill' = [autofill EXCEPT
                    !.input = Head(autofill.sends).msg.code,
                    !.delivered = Head(autofill.sends).currentCode,
                    !.sends = Tail(@)]
  /\ UNCHANGED <<popupScript, tabHash, hash, pageVars, form, store, storageQ, window,
                 linuxPopup, confirmResult, decVars, totpVars>>

\* the generateTOTP promise an interval's updateCode() starts in window w
TimerPromise(t, w) ==
  IF t.owner = "list"
    THEN RowPromise(t.name, t.secret, w, t.attached)
    ELSE ViewPromise(t.name, t.secret, w)

\* 30 seconds pass with every interval on schedule: the clock is in the next
\* window and each setInterval callback has run once, every generation of
\* the period before having settled
Period ==
  /\ loaded
  /\ window < MaxPeriods
  /\ inflight = {}
  /\ window' = window + 1
  /\ inflight' = {TimerPromise(t, window + 1) :
                    t \in {u \in timers : ~ThrowsSynchronously(variant, u.secret)}}
  /\ viewCode' = [viewCode EXCEPT !.failed =
                    @ \/ \E t \in timers : /\ t.owner = "view"
                                            /\ t.name = viewName
                                            /\ ThrowsSynchronously(variant, t.secret)]
  /\ UNCHANGED <<loaded, hash, display, timers, viewName, rows, listReady, form,
                 store, storageQ, linuxPopup, confirmResult, decVars, totpVars, extVars>>

\* the clock enters the next 30-second window
Tick ==
  /\ window < MaxWindow
  /\ window' = window + 1
  /\ UNCHANGED <<hash, pageVars, form, store, storageQ, linuxPopup, confirmResult, decVars, totpVars, extVars>>

\* the popup with its stored account: navigation by its buttons, the refresh
\* timers and the generations they start
NextUi ==
  \/ PageLoad
  \/ \E name \in DOMAIN rows : ClickView(name)
  \/ ClickAddNew
  \/ ClickBack
  \/ \E confirmed \in BOOLEAN : ClickDelete(confirmed)
  \/ ListCallback
  \/ ViewCallback
  \/ DeleteCallback
  \/ SetDoneReload
  \/ \E t \in timers : TimerFire(t)
  \/ \E p \in inflight : GenResolve(p)
  \/ \E p \in inflight : GenReject(p)
  \/ Tick

SpecUi == InitUi /\ [][NextUi]_vars

\* the popup with its add page: accounts typed or scanned and saved
NextStore ==
  \/ PageLoad
  \/ ClickAddNew
  \/ ClickBack
  \/ \E typed \in TypedForms : TypeForm(typed)
  \/ \E uri \in ScannedUris : ScanQr(uri)
  \/ ClickSave
  \/ SaveCallback
  \/ SetDoneList
  \/ ListCallback
  \/ \E p \in inflight : GenResolve(p)

SpecStore == InitStore /\ [][NextStore]_vars

\* a second stored account
SecondName == <<"b">>
SecondSecret == <<"M", "Z", "X", "W">>
TwoKeys == SetKey(InitialKeys, SecondName, SecondSecret)

InitViews ==
  /\ hash = <<>>
  /\ linuxPopup = FALSE
  /\ variant = "async"
  /\ PopupStartWith(TwoKeys)

\* the popup of a user with two stored accounts who looks at one after the other
NextViews ==
  \/ PageLoad
  \/ \E name \in DOMAIN rows : ClickView(name)
  \/ ClickBack
  \/ ListCallback
  \/ ViewCallback
  \/ \E t \in timers : TimerFire(t)
  \/ \E p \in inflight : GenResolve(p)

SpecViews == InitViews /\ [][NextViews]_vars

\* the popup of a user with two stored accounts who views and deletes them
NextDelete ==
  \/ PageLoad
  \/ \E name \in DOMAIN rows : ClickView(name)
  \/ ClickBack
  \/ \E confirmed \in BOOLEAN : ClickDelete(confirmed)
  \/ ListCallback
  \/ ViewCallback
  \/ DeleteCallback
  \/ SetDoneReload
  \/ \E p \in inflight : GenResolve(p)
  \/ \E p \in inflight : GenReject(p)

\* a pending generateTOTP promise settles
Settles == \E p \in inflight : GenReject(p) \/ GenResolve(p)

\* what the browser runs without the user: the load event after a reload, the
\* storage callbacks, the settlement of crypto promises
Due ==
  \/ PageLoad
  \/ ListCallback
  \/ ViewCallback
  \/ DeleteCallback
  \/ SetDoneReload
  \/ Settles

\* the browser does not stop while something is due; the user's clicks are
\* not forced
FairDelete ==
  /\ InitViews
  /\ [][NextDelete]_vars
  /\ WF_vars(Due)

\* the popup left open on its list or view page while the clock advances
NextClock ==
  \/ PageLoad
  \/ \E name \in DOMAIN rows : ClickView(name)
  \/ ClickBack
  \/ ListCallback
  \/ ViewCallback
  \/ \E p \in inflight : GenResolve(p)
  \/ \E p \in inflight : GenReject(p)
  \/ Period

SpecClock == InitStore /\ [][NextClock]_vars

\* what the user types into the tab's key-name and key-secret
TabForms == { [name |-> <<" ">> \o SecondName, secret |-> SecondSecret] }

InitTab ==
  /\ hash = <<>>
  /\ linuxPopup = TRUE
  /\ variant = "async"
  /\ PopupStart

\* the Linux popup, where the stored account is viewed and deleted, and the
\* add.html tab, where a second account is saved
NextTab ==
  \/ PageLoad
  \/ ClickView(InitialName)
  \/ ClickBack
  \/ \E confirmed \in BOOLEAN : ClickDelete(confirmed)
  \/ ListCallback
  \/ ViewCallback
  \/ DeleteCallback
  \/ SetDoneReload
  \/ \E p \in inflight : GenResolve(p)
  \/ \E typed \in TabForms : TabSave(typed)
  \/ TabSaveCallback
  \/ TabSetDone

SpecTab == InitTab /\ [][NextTab]_vars

InitFill ==
  /\ hash = <<>>
  /\ linuxPopup = FALSE
  /\ variant = "async"
  /\ \E script \in PopupScripts : PopupStartOf(InitialKeys, script)

\* the popup and the page of the active tab: codes shown and filled
NextFill ==
  \/ PageLoad
  \/ \E name \in DOMAIN rows : ClickView(name)
  \/ ClickBack
  \/ ListCallback
  \/ ViewCallback
  \/ \E p \in inflight : GenResolve(p)
  \/ \E p \in inflight : GenReject(p)
  \/ \E name \in DOMAIN rows : ClickFillRow(name)
  \/ ClickFillView
  \/ onMessage

SpecFill == InitFill /\ [][NextFill]_vars

\* the add page with QR images of every kind uploaded
NextScan ==
  \/ PageLoad
  \/ ClickAddNew
  \/ ClickBack
  \/ \E typed \in TypedForms : TypeForm(typed)
  \/ \E uri \in ScannedUris \cup MalformedUris : ScanQr(uri)
  \/ ListCallback
  \/ \E p \in inflight : GenResolve(p)

SpecScan == InitStore /\ [][NextScan]_vars

\* the account names hashes are built from
RouteNames == {InitialName, <<"/">>, <<"%", " ">>}

\* the hashes the popup is opened with or that are entered by hand: the
\* documented ones, the ones of the route table, view hashes built with
\* encodeURIComponent, and a view hash with a malformed escape
RouteHashes ==
  {<<>>, HashList, <<"#", "a", "d", "d">>, HashAddNew, HashView, ViewPrefix \o <<"%">>}
    \cup {ViewPrefix \o encodeURIComponent(n) : n \in RouteNames}

InitRoute ==
  /\ hash \in RouteHashes
  /\ linuxPopup \in BOOLEAN
  /\ variant = "async"
  /\ PopupStart

\* location.hash = h, entered by hand or from the console
Navigate(h) ==
  /\ loaded
  /\ Len(storageQ) < MaxPending
  /\ SetHash(h, storageQ)
  /\ UNCHANGED <<loaded, store, window, linuxPopup, confirmResult, decVars, totpVars, extVars>>

\* the popup driven by its hash alone
NextRoute ==
  \/ PageLoad
  \/ \E h \in RouteHashes : Navigate(h)
  \/ ListCallback
  \/ ViewCallback
  \/ \E p \in inflight : GenResolve(p)
  \/ \E p \in inflight : GenReject(p)

SpecRoute == InitRoute /\ [][NextRoute]_vars

-----------------------------------------------------------------------------
(* Reference definitions the claims are stated against.                    *)

\* characters of s that are Base32 symbols once upper-cased and unpadded
RefSymbols(s) ==
  SelectSeq(StripTrailingPad(toUpperCase(s)), LAMBDA ch : ch \in Range(alphabet))

\* bit p (0-based, input order) of the symbols' 5-bit values
RefBit(syms, p) == (IndexOf(alphabet, syms[(p \div 5) + 1]) \div (2^(4 - (p % 5)))) % 2

\* the k-th (0-based) complete 8-bit group, most significant bit first
RefByte(syms, k) ==
  LET b(j) == RefBit(syms, 8 * k + j)
  IN  128 * b(0) + 64 * b(1) + 32 * b(2) + 16 * b(3)
        + 8 * b(4) + 4 * b(5) + 2 * b(6) + b(7)

RefDecode(s) ==
  LET syms == RefSymbols(s)
  IN  [k \in 1..((5 * Len(syms)) \div 8) |-> RefByte(syms, k - 1)]

\* floor(unixSeconds / 30), unixSeconds = floor(ms / 1000)
RefCounter(ms) == FloorDiv(FloorDiv(ms, 1000), 30)

\* the 8-byte big-endian encoding of a 64-bit unsigned counter
BigEndian64(n) ==
  << n[1] \div 256, n[1] % 256, n[2] \div 256, n[2] % 256,
     n[3] \div 256, n[3] % 256, n[4] \div 256, n[4] % 256 >>

\* the reference values of the secrets and clock readings of the model
RefKey == [secret \in Secrets |-> RefDecode(secret)]

RefWindow == [ms \in ClockReadings |-> RefCounter(ms)]

RefMessage == [ms \in ClockReadings |-> BigEndian64(RefCounter(ms))]

\* n in 0..999999 as six decimal digits
SixDigits(n) == [i \in 1..6 |-> Digits[((n \div (10^(6 - i))) % 10) + 1]]

IsSixDigitCode(str) == Len(str) = 6 /\ \A i \in 1..6 : str[i] \in Range(Digits)

-----------------------------------------------------------------------------
(* C1  Every code generateTOTP resolves to, for a secret whose decoded key *)
(* is non-empty and any clock reading, is exactly six ASCII decimal        *)
(* digits, left-zero-padded.                                               *)
C1_SixDigits ==
  \A c \in calls :
    (c.pc = "resolved" /\ Len(c.key) > 0) => IsSixDigitCode(c.result)

\* a resolved code that needed its zero padding
C1_Witness ==
  \E c \in calls :
    c.pc = "resolved" /\ Len(c.key) > 0 /\ c.binary % 1000000 < 100000

-----------------------------------------------------------------------------
(* C2  For one secret the code depends on the clock only through           *)
(* floor(unixSeconds/30): two calls whose readings fall in the same        *)
(* 30-second window resolve to the same code.                              *)
C2_SameWindowSameCode ==
  \A c1 \in calls : \A c2 \in calls :
    (/\ c1.pc = "resolved" /\ c2.pc = "resolved"
     /\ c1.secret = c2.secret
     /\ RefWindow[c1.ms] = RefWindow[c2.ms]) => c1.result = c2.result

\* two resolved calls of one secret at different instants of one window
C2_Witness ==
  \E c1 \in calls : \E c2 \in calls :
    /\ c1.pc = "resolved" /\ c2.pc = "resolved"
    /\ c1.secret = c2.secret /\ c1.ms # c2.ms
    /\ RefWindow[c1.ms] = RefWindow[c2.ms]

-----------------------------------------------------------------------------
(* C3  For every input string base32ToBytes returns the bytes of the       *)
(* reference decoder (uppercase, strip trailing '=', drop non-alphabet     *)
(* characters, 5 bits per symbol, complete 8-bit groups only).             *)
C3_DecodeMatchesReference ==
  decPc # "ready" => decOut = <<"bytes", RefDecode(decIn)>>

\* a decoded input with a lower-case letter and whitespace that yields bytes
C3_Witness ==
  /\ decPc = "done"
  /\ variant = "chain"
  /\ Len(decOut[2]) >= 1
  /\ "h" \in Range(decIn)
  /\ " " \in Range(decIn)

-----------------------------------------------------------------------------
(* C4  Dynamic truncation: offset = digest[19] & 0x0F, the four bytes at   *)
(* offset..offset+3 lie within the digest, the truncated value is the      *)
(* 31-bit big-endian number they spell (top bit masked), a non-negative    *)
(* integer below 2^31, and the code is that value mod 1,000,000.           *)
C4_Truncation ==
  \A c \in calls :
    c.pc = "resolved" =>
      LET d == c.signature
          o == d[20] % 16
      IN  /\ Len(d) = 20
          /\ c.offset = o
          /\ o >= 0 /\ o + 3 <= 19
          /\ c.binary = (d[o + 1] % 128) * (2^24) + d[o + 2] * (2^16)
                          + d[o + 3] * (2^8) + d[o + 4]
          /\ c.binary >= 0 /\ c.binary <= 2147483647
          /\ c.result = SixDigits(c.binary % 1000000)

\* a digest whose last byte has a high nibble and whose selected word has its top bit set
C4_Witness ==
  \E c \in calls :
    /\ c.pc = "resolved"
    /\ c.signature[20] >= 16
    /\ c.signature[(c.signature[20] % 16) + 1] >= 128

-----------------------------------------------------------------------------
(* C5  The 8-byte message passed to HMAC is the big-endian encoding of the *)
(* 64-bit counter floor(nowUnixSeconds/30): all 8 bytes carry the counter. *)
C5_MessageIsCounter64 ==
  \A c \in calls : c.buffer = RefMessage[c.ms]

-----------------------------------------------------------------------------
(* C7  Concurrent calls never interfere: whatever the interleaving, each   *)
(* call resolves to the code it produces when run alone, a function of its *)
(* own secret and clock reading.                                           *)
CodeAlone ==
  [v \in Variants, seed \in HmacSeeds, secret \in Secrets, ms \in ClockReadings |->
     LET d == HmacSha1(seed, DecodeSecret(v, secret), CounterBuffer(TimeCounter(v, ms)))
     IN  FormatOtp(OtpOf(TruncBinary(v, d, TruncOffset(d))))]

KeyAlone == [v \in Variants, secret \in Secrets |-> DecodeSecret(v, secret)]

MessageAlone == [v \in Variants, ms \in ClockReadings |-> CounterBuffer(TimeCounter(v, ms))]

C7_NoInterference ==
  \A c \in calls :
    /\ c.pc = "resolved" => c.result = CodeAlone[variant, hmacSeed, c.secret, c.ms]
    /\ c.key = KeyAlone[variant, c.secret]
    /\ c.buffer = MessageAlone[variant, c.ms]

\* a call resolved while a call with another secret and another reading awaits sign
C7_Witness ==
  \E c1 \in calls : \E c2 \in calls :
    /\ c1.pc = "resolved" /\ c2.pc = "sign"
    /\ c1.secret # c2.secret /\ c1.ms # c2.ms
    /\ c1.buffer # c2.buffer

-----------------------------------------------------------------------------
(* C8  If importKey or sign rejects, the promise generateTOTP returned     *)
(* rejects with that failure; a failure never becomes a resolved code.     *)
C8_FailurePropagates ==
  \A c \in calls :
    /\ c.failure # "none" => (c.pc = "rejected" /\ c.result = <<c.failure>>)
    /\ c.pc = "resolved" => c.failure = "none"

\* both primitives have failed: importKey for one call, sign for another
C8_Witness ==
  \E c1 \in calls : \E c2 \in calls :
    /\ c1.failure = "NotSupportedError"
    /\ c2.failure = "OperationError"

-----------------------------------------------------------------------------
(* C10 (as claimed)  When the secret decodes to an empty key, the outcome  *)
(* of generateTOTP is a well-formed 6-digit code.                          *)
C10_EmptyKeyYieldsCode ==
  \A c \in calls :
    (RefKey[c.secret] = <<>> /\ c.pc \in {"resolved", "rejected"}) =>
      (c.pc = "resolved" /\ IsSixDigitCode(c.result))

(* C10 (amended)  When the secret decodes to an empty key, generateTOTP    *)
(* raises no error itself and still invokes importKey with the zero-length *)
(* key; importKey rejects it (DataError), so the promise rejects with that *)
(* failure and no code is produced.                                        *)
C10_EmptyKeyRejected ==
  \A c \in calls :
    RefKey[c.secret] = <<>> =>
      /\ c.importArg = <<>>
      /\ c.pc \in {"importKey", "rejected"}
      /\ c.pc = "rejected" => (c.failure = "DataError" /\ c.result = <<"DataError">>)

\* an empty-key call that has settled, for a secret with a Base32 symbol in it
C10_Witness ==
  \E c1 \in calls : \E c2 \in calls :
    /\ c1.secret = <<>> /\ c1.pc = "rejected"
    /\ c2.secret = <<"a">> /\ c2.pc = "rejected"

-----------------------------------------------------------------------------
(* Characters the decoders drop: those whose upper-case form contains no   *)
(* alphabet character.                                                     *)
Unrecognized(c) == c \notin Range(alphabet) \cup Range(LowerLetters) \cup {"ß"}

\* a letter a-z in upper case, any other character as it is
AsciiUpper(c) ==
  IF IndexOf(LowerLetters, c) >= 0 THEN UpperLetters[IndexOf(LowerLetters, c) + 1] ELSE c

\* the recognized characters of a string, in order, letters a-z in upper case
RecognizedOf(s) ==
  LET kept == SelectSeq(s, LAMBDA c : ~Unrecognized(c))
  IN  [i \in 1..Len(kept) |-> AsciiUpper(kept[i])]

\* the characters of the upper-cased string that are in the alphabet
ValidCharCount(s) == Len(SelectSeq(toUpperCase(s), LAMBDA ch : ch \in Range(alphabet)))

-----------------------------------------------------------------------------
-----------------------------------------------------------------------------
-----------------------------------------------------------------------------
-----------------------------------------------------------------------------
(* C6  Whenever a view is left or replaced by hash navigation, every       *)
(* refresh timer it started is cancelled: no 30-second timer is ever       *)
(* active for a view (a View page or the List page's rows) that is no      *)
(* longer displayed.                                                       *)
C6_NoTimerOfHiddenView ==
  \A t \in timers :
    IF t.owner = "view"
      THEN "page-view" \in display /\ viewName = t.name
      ELSE "page-list" \in display /\ t.attached

-----------------------------------------------------------------------------
(* C9  Whenever code generation has failed for a displayed account, the    *)
(* UI shows an error indicator in place of the code, on the list page and  *)
(* on the view page alike.                                                 *)
C9_FailureShowsError ==
  /\ ("page-view" \in display /\ viewCode.failed) => viewCode.text = ErrorText
  /\ "page-list" \in display =>
       \A n \in DOMAIN rows : rows[n].failed => rows[n].text = ErrorText

-----------------------------------------------------------------------------
(* C14  While a code is displayed (view page or list page), an interval    *)
(* that re-invokes generation for its element every 30 seconds is active   *)
(* (on the view page at the latest once the pending storage callback has   *)
(* run), and every invocation computes for the window the clock is in at   *)
(* that invocation.                                                        *)
ViewRefreshed ==
  \/ \E t \in timers : t.owner = "view" /\ t.name = viewName
  \/ \E i \in 1..Len(storageQ) : storageQ[i] = GetRequest("view", viewName)

RowRefreshed(n) ==
  \E t \in timers : t.owner = "list" /\ t.name = n /\ t.attached

CodeDisplayedRefreshed ==
  /\ ("page-view" \in display /\ viewCode.text.kind = "code") => ViewRefreshed
  /\ "page-list" \in display =>
       \A n \in DOMAIN rows : rows[n].text.kind = "code" => RowRefreshed(n)

\* the promises of the generateTOTP calls made in a step
InvokedOnLiveClock ==
  \A p \in inflight' \ (inflight \cup DetachRows(inflight)) : p.window = window

-----------------------------------------------------------------------------
(* C15  The account store is a mapping with at most one secret per account *)
(* name: saving under a name that already exists replaces that name's      *)
(* secret and never creates a second entry, and leaves the other accounts  *)
(* as they were.                                                           *)

\* the keys objects in storage or on their way to it
KeysObjects ==
  {store} \cup {storageQ[i].keys : i \in {j \in 1..Len(storageQ) : storageQ[j].op = "set"}}

OneSecretPerName ==
  \A keys \in KeysObjects :
    \A i, j \in 1..Len(keys) : keys[i].name = keys[j].name => i = j

\* the step in which the get callback of a save or of a delete runs: the
\* request at the head is replaced by a write at the end
CallbackWrites(cont) ==
  /\ storageQ # <<>>
  /\ Head(storageQ).op = "get" /\ Head(storageQ).cont = cont
  /\ Len(storageQ') = Len(storageQ)
  /\ storageQ' # storageQ

\* the entries of keys under other names than name
Others(keys, name) == {keys[i] : i \in {j \in 1..Len(keys) : keys[j].name # name}}

SaveReplaces ==
  CallbackWrites("save") =>
    LET name == Head(storageQ).name
        written == storageQ'[Len(storageQ')].keys
    IN  /\ Cardinality({i \in 1..Len(written) : written[i].name = name}) = 1
        /\ \A i \in 1..Len(written) :
             written[i].name = name => written[i].secret = Head(storageQ).secret
        /\ Others(written, name) = Others(store, name)

-----------------------------------------------------------------------------
(* C16  deleteKey(name) touches storage only after the user confirmed the  *)
(* prompt: a declined prompt issues no request, changes no stored key and  *)
(* reloads nothing; a confirmed one writes the stored keys without name,   *)
(* and the store changes and the popup reloads in the one step in which    *)
(* that write completes.                                                   *)

\* the storage requests of deleteKey calls
DeleteRequests(q) ==
  Len(SelectSeq(q, LAMBDA r : r.cont \in {"delete", "reload"}))

\* location.reload() ran in this step
Reloaded == loaded /\ ~loaded'

DeclinedChangesNothing ==
  (confirmResult' = "cancel" /\ confirmResult # "cancel") =>
    /\ store' = store
    /\ ~Reloaded
    /\ DeleteRequests(storageQ') = DeleteRequests(storageQ)

RequestedOnlyWhenConfirmed ==
  DeleteRequests(storageQ') > DeleteRequests(storageQ) =>
    /\ confirmResult' = "ok"
    /\ DeleteRequests(storageQ') = DeleteRequests(storageQ) + 1
    /\ \E i \in 1..Len(storageQ') :
         storageQ'[i].cont = "delete" /\ storageQ'[i].name = viewName

DeleteRemovesName ==
  CallbackWrites("delete") =>
    LET name == Head(storageQ).name
        written == storageQ'[Len(storageQ')].keys
    IN  /\ \A i \in 1..Len(written) : written[i].name # name
        /\ Others(written, name) = Others(store, name)
        /\ storageQ'[Len(storageQ')].cont = "reload"

ReloadWhenWritten ==
  (store' # store \/ Reloaded) =>
    /\ storageQ # <<>>
    /\ Head(storageQ).op = "set" /\ Head(storageQ).cont = "reload"
    /\ store' = Head(storageQ).keys
    /\ Reloaded

-----------------------------------------------------------------------------
(* C17  After Save with a non-empty name and secret the secret is stored   *)
(* under keys[name] and the list page rendered next contains the new       *)
(* account: once every storage request has completed, a rendered list      *)
(* shows a row for every stored account.                                   *)
C17_ListShowsSaved ==
  (storageQ = <<>> /\ "page-list" \in display /\ listReady) =>
    KeyNames(store) \subseteq DOMAIN rows

-----------------------------------------------------------------------------
(* C18  After a successful QR scan of an otpauth://totp/ URI that has a    *)
(* secret parameter, the store maps the extracted account name to the      *)
(* extracted secret: the scan itself stores the account.                   *)
C18_ScanStores ==
  ("page-add" \in display /\ form.status = "QR data loaded.") =>
    \E i \in 1..Len(store) : store[i].name = form.name /\ store[i].secret = form.secret

-----------------------------------------------------------------------------
(* C19  showPage maps the hash to the page as documented: an empty hash or *)
(* "#list" shows the account list, "#add" shows the add-account page, and  *)
(* "#view/" + encodeURIComponent(name) shows the view page loaded for      *)
(* exactly account name, for every name.                                   *)
C19_DocumentedRoutes ==
  loaded =>
    /\ hash \in {<<>>, HashList} => display = {"page-list"}
    /\ hash = <<"#", "a", "d", "d">> => display = {"page-add"}
    /\ \A n \in RouteNames :
         hash = ViewPrefix \o encodeURIComponent(n) =>
           display = {"page-view"} /\ viewName = n

-----------------------------------------------------------------------------
(* C20  Once showPage(hash) and any hashchange it triggers are handled,    *)
(* exactly one page container is displayed, for every hash: the one of the *)
(* selected route (page-view for "#view" and "#view/...", page-add for     *)
(* the add route, page-list otherwise).                                    *)
SelectedPage(h) ==
  IF h = HashView \/ (Len(h) >= Len(ViewPrefix) /\ SubSeq(h, 1, Len(ViewPrefix)) = ViewPrefix)
    THEN "page-view"
  ELSE IF h = HashAddNew THEN "page-add"
  ELSE "page-list"

C20_ExactlyOnePage ==
  loaded => display = {SelectedPage(hash)}

-----------------------------------------------------------------------------
(* C28  Every generateTOTP variant derives the same counter from the clock *)
(* reading: floor(floor(ms / 1000) / 30) of the promise chain equals       *)
(* floor(ms / 1000 / 30) of the async function, and both are               *)
(* floor(unixTimeSeconds / 30); the message a call signs is built from it. *)
UnixTimeSeconds(ms) == FloorDiv(ms, 1000)

-----------------------------------------------------------------------------
(* C29  base32ToBytes (strip trailing '=', uppercase, remove characters    *)
(* outside A-Z2-7) and base32toBytes (uppercase, strip trailing '=', skip  *)
(* characters of negative index) return the same bytes on every input.     *)
C29_DecodersAgree ==
  decPc # "ready" =>
    /\ decOut = <<"bytes", base32ToBytes(decIn)>>
    /\ decOut = <<"bytes", base32toBytes(decIn)>>

\* the async decoder on an input with '=' before its end and a character
\* outside the alphabet, which still yields a byte
C29_Witness ==
  /\ decPc = "done"
  /\ variant = "async"
  /\ \E i \in 1..(Len(decIn) - 1) : decIn[i] = "=" /\ decIn[i + 1] # "="
  /\ \E i \in 1..Len(decIn) : decIn[i] \in {" ", "1"}
  /\ Len(decOut[2]) >= 1

-----------------------------------------------------------------------------
(* C27  parseOtpAuthUri reports every URI it rejects: after the scan of a  *)
(* URI that does not start with "otpauth://totp/" qr-status is "Invalid    *)
(* TOTP QR.", and after the scan of one without a secret parameter it is   *)
(* "QR missing secret.".                                                   *)
C27_RejectionReported ==
  \A uri \in form.files :
    /\ ~uri.totp => form.status = "Invalid TOTP QR."
    /\ (uri.totp /\ Len(uri.secret) = 0) => form.status = "QR missing secret."

-----------------------------------------------------------------------------
(* C21  Every code the view page shows while account X is displayed was    *)
(* generated from X's stored secret: no timer and no generation in flight  *)
(* of an account viewed before writes into the display of X.               *)
C21_OwnSecretOnly ==
  ("page-view" \in display /\ viewCode.text.kind = "code") =>
    viewCode.text.secret = Lookup(store, viewName)

-----------------------------------------------------------------------------
(* C26  For every Fill action, of a list row or of the view page, the      *)
(* value the content script writes into the page's input is the 6-digit    *)
(* code displayed when Fill was clicked: the fill_otp message carries that *)
(* code in the property the content script reads, and nothing is copied or *)
(* sent while the display shows "Loading..." or "Error".                   *)
C26_FillWritesDisplayedCode ==
  /\ \A i \in 1..Len(autofill.sends) :
       /\ autofill.sends[i].currentCode.kind = "code"
       /\ autofill.sends[i].msg.code = autofill.sends[i].currentCode
  /\ autofill.clipboard.kind \in {"none", "code"}
  /\ autofill.input = autofill.delivered

-----------------------------------------------------------------------------
(* C22  Two store mutations of different accounts that overlap, each a get *)
(* of the whole keys object followed by a set of it, are both reflected in *)
(* the store once both have completed: here, the account saved in the      *)
(* add.html tab is stored once the tab's save has completed, whatever the  *)
(* popup deletes of the other account meanwhile.                           *)
C22_BothReflected ==
  tabHash = HashList => Lookup(store, SecondName) = SecondSecret

-----------------------------------------------------------------------------
(* C25  A store mutation touches only its own entry of the keys object it  *)
(* read: saveManualKey for name N writes N's secret and leaves every other *)
(* account's secret as read; a confirmed deleteKey(N) writes the object    *)
(* without N and with every other account as read; deleting a name that is *)
(* not stored writes the mapping unchanged; and the completed write makes  *)
(* the store exactly the object written.                                   *)

\* the get callback of a mutation ran in this step: the request at the head
\* was replaced by the write at the end
MutationWrites ==
  /\ storageQ # <<>>
  /\ Head(storageQ).op = "get" /\ Head(storageQ).cont \in {"save", "tabsave", "delete"}
  /\ Len(storageQ') = Len(storageQ)
  /\ SubSeq(storageQ', 1, Len(storageQ') - 1) = Tail(storageQ)
  /\ storageQ'[Len(storageQ')].op = "set"

\* a write at the head completed in this step
WriteCompletes ==
  /\ storageQ # <<>>
  /\ Head(storageQ).op = "set"
  /\ Len(storageQ') < Len(storageQ)

OwnEntryOnly ==
  /\ MutationWrites =>
       LET name == Head(storageQ).name
           written == storageQ'[Len(storageQ')].keys
       IN  /\ \A n \in (KeyNames(store) \cup KeyNames(written)) \ {name} :
                /\ n \in KeyNames(store) /\ n \in KeyNames(written)
                /\ Lookup(written, n) = Lookup(store, n)
           /\ IF Head(storageQ).cont = "delete"
                THEN /\ name \notin KeyNames(written)
                     /\ name \notin KeyNames(store) => written = store
                ELSE Lookup(written, name) = Head(storageQ).secret
  /\ WriteCompletes => store' = Head(storageQ).keys

-----------------------------------------------------------------------------
(* C23  After the user confirms Delete on the view page of X, the popup    *)
(* eventually settles on the list page, and the list shown once every      *)
(* pending storage callback and the reload have run has no entry for X     *)
(* (a user who leaves the list again before that has not let it settle and *)
(* is not counted against the statement).                                  *)

\* Delete was confirmed on the view page of X: deleteKey(X) has issued its
\* storage request and the popup went to the list
DeleteConfirmed(X) ==
  /\ confirmResult = "ok"
  /\ hash = HashList
  /\ \E i \in 1..Len(storageQ) : storageQ[i].cont = "delete" /\ storageQ[i].name = X

\* after the reload: the list page rendered, nothing pending, no row for X
SettledWithout(X) ==
  /\ confirmResult = "none"
  /\ loaded
  /\ display = {"page-list"}
  /\ listReady
  /\ storageQ = <<>>
  /\ X \notin DOMAIN rows
  /\ X \notin KeyNames(store)

C23_SettlesUnlessNavigated ==
  \A X \in KeyNames(TwoKeys) :
    DeleteConfirmed(X) ~> (SettledWithout(X) \/ hash # HashList)

-----------------------------------------------------------------------------
(* C24  While a code is displayed and its 30-second timer fires on         *)
(* schedule, the code on screen is the code of the current or of the       *)
(* immediately preceding 30-second window: it never lags floor(now / 30)   *)
(* by more than one window.                                                *)
C24_AtMostOneWindowBehind ==
  /\ ("page-view" \in display /\ viewCode.text.kind = "code") =>
       viewCode.text.window >= window - 1
  /\ "page-list" \in display =>
       \A n \in DOMAIN rows :
         rows[n].text.kind = "code" => rows[n].text.window >= window - 1

=============================================================================
